---------------------------- MODULE Spec2Model ----------------------------
(* A model of ansi_colours: the conversion between 24-bit sRGB colours and  *)
(* the 256-colour ANSI palette (src/src/ansi256.c) and of the example       *)
(* command-line driver (src/examples/convert.c).                            *)
(*                                                                          *)
(* A uint32_t is modelled as its four bytes, most significant first:        *)
(* <<b3, b2, b1, b0>> stands for b3*2^24 + b2*2^16 + b1*2^8 + b0.  All      *)
(* 32-bit arithmetic is done bytewise with carries and is reduced modulo    *)
(* 2^32, as the C type does.  A uint8_t is an integer in 0..255; an         *)
(* assignment to one is reduced modulo 256.                                 *)
EXTENDS Integers, Sequences, FiniteSets

VARIABLES
    pc,      \* where the current run stands
    index,   \* the uint8_t palette index given to rgb_from_ansi256
    rgb,     \* the uint32_t colour given to ansi256_from_rgb
    back,    \* the uint8_t ansi256_from_rgb returned
    loc,     \* the locals ansi256_from_rgb computed on its non-grey path
    fn,      \* the helper a helper run calls
    x,       \* first argument of the helper
    y,       \* second argument of the helper
    ret,     \* what the helper returned
    argv,    \* the driver's arguments after argv[0]
    libc,    \* what the C library's strtoul does to errno when it converts nothing
    stdout,  \* lines the driver printed
    stderr,  \* lines the driver wrote to the error stream
    status   \* the driver's exit status

vars == <<pc, index, rgb, back, loc, fn, x, y, ret, argv, libc, stdout, stderr, status>>

---------------------------------------------------------------------------
(* Bounds of the model.                                                    *)

\* Every ChannelStride-th channel value is sampled, besides EdgeChannels.
ChannelStride == 16

\* Every DistStride-th channel value is sampled for pairs of colours.
DistStride == 64

\* The driver is run with at most MaxArgs arguments after argv[0].
MaxArgs == 4

\* The value a variable holds while it holds nothing.
None == 0 - 1

---------------------------------------------------------------------------
(* Fixed-width integers.                                                   *)

RECURSIVE BitAnd(_, _)
BitAnd(a, b) ==
    IF a = 0 \/ b = 0 THEN 0
    ELSE (a % 2) * (b % 2) + 2 * BitAnd(a \div 2, b \div 2)

RECURSIVE BitOr(_, _)
BitOr(a, b) ==
    IF a = 0 THEN b
    ELSE IF b = 0 THEN a
    ELSE ((a % 2) + (b % 2) - (a % 2) * (b % 2)) + 2 * BitOr(a \div 2, b \div 2)

\* Conversion to uint8_t.
U8(n) == n % 256

\* Conversion of a non-negative int below 2^31 to uint32_t.
U32(n) == <<(n \div 16777216) % 256, (n \div 65536) % 256, (n \div 256) % 256, n % 256>>

\* The value of a uint32_t whose top bit is clear.
ToInt(w) == w[1] * 16777216 + w[2] * 65536 + w[3] * 256 + w[4]

\* w << n and w >> n for n in {0, 8, 16, 24}.
ShlU32(w, n) ==
    CASE n = 0  -> w
      [] n = 8  -> <<w[2], w[3], w[4], 0>>
      [] n = 16 -> <<w[3], w[4], 0, 0>>
      [] n = 24 -> <<w[4], 0, 0, 0>>

ShrU32(w, n) ==
    CASE n = 0  -> w
      [] n = 8  -> <<0, w[1], w[2], w[3]>>
      [] n = 16 -> <<0, 0, w[1], w[2]>>
      [] n = 24 -> <<0, 0, 0, w[1]>>

AndU32(a, b) == [k \in 1..4 |-> BitAnd(a[k], b[k])]

OrU32(a, b) == [k \in 1..4 |-> BitOr(a[k], b[k])]

\* a + b modulo 2^32.
AddU32(a, b) ==
    LET s0 == a[4] + b[4]
        s1 == a[3] + b[3] + s0 \div 256
        s2 == a[2] + b[2] + s1 \div 256
        s3 == a[1] + b[1] + s2 \div 256
    IN  <<s3 % 256, s2 % 256, s1 % 256, s0 % 256>>

\* a * b modulo 2^32.
MulU32(a, b) ==
    LET p0 == a[4] * b[4]
        p1 == a[4] * b[3] + a[3] * b[4] + p0 \div 256
        p2 == a[4] * b[2] + a[3] * b[3] + a[2] * b[4] + p1 \div 256
        p3 == a[4] * b[1] + a[3] * b[2] + a[2] * b[3] + a[1] * b[4] + p2 \div 256
    IN  <<p3 % 256, p2 % 256, p1 % 256, p0 % 256>>

---------------------------------------------------------------------------
(* src/src/ansi256.c                                                       *)

R(c) == ToInt(AndU32(ShrU32(c, 16), U32(255)))
G(c) == ToInt(AndU32(ShrU32(c, 8), U32(255)))
B(c) == ToInt(AndU32(c, U32(255)))

\* The 16 system colours, 0x000000 0xce0000 ... 0xffffff.
system_colours ==
    << <<0,   0,   0,   0>>, <<0, 206,   0,   0>>, <<0,   0, 206,   0>>, <<0, 206, 206,   0>>,
       <<0,   0,   0, 238>>, <<0, 206,   0, 206>>, <<0,   0, 206, 206>>, <<0, 239, 239, 239>>,
       <<0, 127, 127, 127>>, <<0, 255,   0,   0>>, <<0,   0, 255,   0>>, <<0, 255, 255,   0>>,
       <<0,  92,  92, 255>>, <<0, 255,   0, 255>>, <<0,   0, 255, 255>>, <<0, 255, 255, 255>> >>

values == <<0, 95, 135, 175, 215, 255>>

cube_value(idx) == U32(values[idx + 1])

rgb_from_ansi256_swapped(i) ==
    IF BitAnd(i, 240) = 0 THEN system_colours[i + 1]
    ELSE IF i < 232 THEN
        LET idx == U8(i - 16)
        IN  OrU32(OrU32(ShlU32(cube_value(idx \div 36), 16),
                        ShlU32(cube_value(idx % 6), 8)),
                  cube_value((idx \div 6) % 6))
    ELSE
        LET idx == U8((i - 232) * 10 + 8)
        IN  MulU32(U32(idx), U32(65793))

rgb_from_ansi256(i) ==
    IF BitAnd(i, 240) = 0 THEN system_colours[i + 1]
    ELSE IF i < 232 THEN
        LET idx == U8(i - 16)
        IN  OrU32(OrU32(ShlU32(cube_value(idx \div 36), 16),
                        ShlU32(cube_value((idx \div 6) % 6), 8)),
                  cube_value(idx % 6))
    ELSE
        LET idx == U8((i - 232) * 10 + 8)
        IN  MulU32(U32(idx), U32(65793))

\* The lookup table for approximations of shades of grey; entry v + 1 is the
\* C array's element v.
ansi256_from_grey ==
    <<
        16,  16,  16,  16,  16, 232, 232, 232,
       232, 232, 232, 232, 232, 232, 233, 233,
       233, 233, 233, 233, 233, 233, 233, 233,
       234, 234, 234, 234, 234, 234, 234, 234,
       234, 234, 235, 235, 235, 235, 235, 235,
       235, 235, 235, 235, 236, 236, 236, 236,
       236, 236, 236, 236, 236, 236, 237, 237,
       237, 237, 237, 237, 237, 237, 237, 237,
       238, 238, 238, 238, 238, 238, 238, 238,
       238, 238, 239, 239, 239, 239, 239, 239,
       239, 239, 239, 239, 240, 240, 240, 240,
       240, 240, 240, 240,  59,  59,  59,  59,
        59, 241, 241, 241, 241, 241, 241, 241,
       242, 242, 242, 242, 242, 242, 242, 242,
       242, 242, 243, 243, 243, 243, 243, 243,
       243, 243, 243, 244, 244, 244, 244, 244,
       244, 244, 244, 244, 102, 102, 102, 102,
       102, 245, 245, 245, 245, 245, 245, 246,
       246, 246, 246, 246, 246, 246, 246, 246,
       246, 247, 247, 247, 247, 247, 247, 247,
       247, 247, 247, 248, 248, 248, 248, 248,
       248, 248, 248, 248, 145, 145, 145, 145,
       145, 249, 249, 249, 249, 249, 249, 250,
       250, 250, 250, 250, 250, 250, 250, 250,
       250, 251, 251, 251, 251, 251, 251, 251,
       251, 251, 251, 252, 252, 252, 252, 252,
       252, 252, 252, 252, 188, 188, 188, 188,
       188, 253, 253, 253, 253, 253, 253, 254,
       254, 254, 254, 254, 254, 254, 254, 254,
       254, 255, 255, 255, 255, 255, 255, 255,
       255, 255, 255, 255, 255, 255, 255, 231,
       231, 231, 231, 231, 231, 231, 231, 231
    >>

\* The CUBE_THRESHOLDS macro: the cube digit i and the cube level of the
\* bucket v falls in, which the macro hands to IDX(i, v).
CUBE_THRESHOLDS_inclusive(v, a, b, c, d, e) ==
    IF      v <= a THEN [i |-> 0, v |-> 0]
    ELSE IF v <= b THEN [i |-> 1, v |-> 95]
    ELSE IF v <= c THEN [i |-> 2, v |-> 135]
    ELSE IF v <= d THEN [i |-> 3, v |-> 175]
    ELSE IF v <= e THEN [i |-> 4, v |-> 215]
    ELSE                [i |-> 5, v |-> 255]

CUBE_THRESHOLDS(v, a, b, c, d, e) ==
    IF      v < a THEN [i |-> 0, v |-> 0]
    ELSE IF v < b THEN [i |-> 1, v |-> 95]
    ELSE IF v < c THEN [i |-> 2, v |-> 135]
    ELSE IF v < d THEN [i |-> 3, v |-> 175]
    ELSE IF v < e THEN [i |-> 4, v |-> 215]
    ELSE               [i |-> 5, v |-> 255]

\* The three definitions of the IDX macro.
IDX_red_no_offset(i, v) == OrU32(ShlU32(U32(i * 36), 24), ShlU32(U32(v), 16))

IDX_red(i, v) == OrU32(ShlU32(U32(i * 36 + 16), 24), ShlU32(U32(v), 16))

IDX_green_as_red(i, v) == OrU32(ShlU32(U32(i * 36), 24), ShlU32(U32(v), 8))

IDX_green(i, v) == OrU32(ShlU32(U32(i * 6), 24), ShlU32(U32(v), 8))

IDX_blue(i, v) == OrU32(ShlU32(U32(i), 24), U32(v))

cube_index_red(v) ==
    LET t == CUBE_THRESHOLDS(v, 38, 115, 155, 196, 235) IN IDX_red(t.i, t.v)

cube_index_green(v) ==
    LET t == CUBE_THRESHOLDS(v, 36, 116, 154, 195, 235) IN IDX_green(t.i, t.v)

cube_index_blue_inclusive(v) ==
    LET t == CUBE_THRESHOLDS_inclusive(v, 35, 115, 155, 195, 235) IN IDX_blue(t.i, t.v)

cube_index_blue(v) ==
    LET t == CUBE_THRESHOLDS(v, 35, 115, 155, 195, 235) IN IDX_blue(t.i, t.v)

luminance_swapped(c) ==
    U8(ToInt(ShrU32(AddU32(AddU32(MulU32(U32(11998262), U32(R(c))),
                                  MulU32(U32(3568058), U32(G(c)))),
                           MulU32(U32(1210896), U32(B(c)))),
                    24)))

luminance(c) ==
    U8(ToInt(ShrU32(AddU32(AddU32(MulU32(U32(3568058), U32(R(c))),
                                  MulU32(U32(11998262), U32(G(c)))),
                           MulU32(U32(1210896), U32(B(c)))),
                    24)))

distance_own_red(a, b) ==
    LET r_sum == R(a) + R(a)
        dr == R(a) - R(b)
        dg == G(a) - G(b)
        db == B(a) - B(b)
    IN  (1024 + r_sum) * dr * dr + 2048 * dg * dg + (1534 - r_sum) * db * db

\* The int32_t locals r, g, b are dr, dg, db here.
distance(a, b) ==
    LET r_sum == R(a) + R(b)
        dr == R(a) - R(b)
        dg == G(a) - G(b)
        db == B(a) - B(b)
    IN  (1024 + r_sum) * dr * dr + 2048 * dg * dg + (1534 - r_sum) * db * db

\* One call of ansi256_from_rgb: ret is the index returned and loc holds the
\* locals of the non-grey path when it was taken, and nothing otherwise.
ansi256_from_rgb_ties_to_cube(c) ==
    IF R(c) = G(c) /\ G(c) = B(c)
    THEN [ret |-> ansi256_from_grey[ToInt(AndU32(c, U32(255))) + 1], loc |-> <<>>]
    ELSE
        LET grey_index == ansi256_from_grey[luminance(c) + 1]
            grey_distance == distance(c, rgb_from_ansi256(grey_index))
            cube == AddU32(AddU32(cube_index_red(R(c)), cube_index_green(G(c))),
                           cube_index_blue(B(c)))
        IN  [ret |-> IF distance(c, cube) <= grey_distance
                     THEN U8(ToInt(ShrU32(cube, 24)))
                     ELSE grey_index,
             loc |-> << [grey_index |-> grey_index,
                         grey_distance |-> grey_distance,
                         cube |-> cube] >>]

ansi256_from_rgb_no_grey_test(c) ==
    LET grey_index == ansi256_from_grey[luminance(c) + 1]
        grey_distance == distance(c, rgb_from_ansi256(grey_index))
        cube == AddU32(AddU32(cube_index_red(R(c)), cube_index_green(G(c))),
                       cube_index_blue(B(c)))
    IN  [ret |-> IF distance(c, cube) < grey_distance
                 THEN U8(ToInt(ShrU32(cube, 24)))
                 ELSE grey_index,
         loc |-> << [grey_index |-> grey_index,
                     grey_distance |-> grey_distance,
                     cube |-> cube] >>]

ansi256_from_rgb_next_entry(c) ==
    IF R(c) = G(c) /\ G(c) = B(c)
    THEN [ret |-> ansi256_from_grey[((ToInt(AndU32(c, U32(255))) + 1) % 256) + 1],
          loc |-> <<>>]
    ELSE
        LET grey_index == ansi256_from_grey[luminance(c) + 1]
            grey_distance == distance(c, rgb_from_ansi256(grey_index))
            cube == AddU32(AddU32(cube_index_red(R(c)), cube_index_green(G(c))),
                           cube_index_blue(B(c)))
        IN  [ret |-> IF distance(c, cube) < grey_distance
                     THEN U8(ToInt(ShrU32(cube, 24)))
                     ELSE grey_index,
             loc |-> << [grey_index |-> grey_index,
                         grey_distance |-> grey_distance,
                         cube |-> cube] >>]

ansi256_from_rgb(c) ==
    IF R(c) = G(c) /\ G(c) = B(c)
    THEN [ret |-> ansi256_from_grey[ToInt(AndU32(c, U32(255))) + 1], loc |-> <<>>]
    ELSE
        LET grey_index == ansi256_from_grey[luminance(c) + 1]
            grey_distance == distance(c, rgb_from_ansi256(grey_index))
            cube == AddU32(AddU32(cube_index_red(R(c)), cube_index_green(G(c))),
                           cube_index_blue(B(c)))
        IN  [ret |-> IF distance(c, cube) < grey_distance
                     THEN U8(ToInt(ShrU32(cube, 24)))
                     ELSE grey_index,
             loc |-> << [grey_index |-> grey_index,
                         grey_distance |-> grey_distance,
                         cube |-> cube] >>]

---------------------------------------------------------------------------
(* The inputs the runs draw from.                                          *)

\* The quantizers' thresholds and the values just below them, the cube
\* levels, the ends of the grey ramp, the grey system colours, and 106, with
\* which (38, 106, 115) is as far from its cube candidate as from its grey one.
EdgeChannels ==
    {0, 8, 34, 35, 36, 37, 38, 95, 106, 114, 115, 116, 127, 128, 135, 153, 154,
     155, 175, 194, 195, 196, 215, 234, 235, 238, 239, 255}

Channels == {v \in 0..255 : v % ChannelStride = 0} \cup EdgeChannels

RGB(r, g, b) == <<0, r, g, b>>

Greys == {RGB(v, v, v) : v \in 0..255}

Colours == {RGB(r, g, b) : r \in Channels, g \in Channels, b \in Channels} \cup Greys

DistChannels == {v \in 0..255 : v % DistStride = 0} \cup {255}

DistColours == {RGB(r, g, b) : r \in DistChannels, g \in DistChannels, b \in DistChannels}

---------------------------------------------------------------------------
(* Runs of the two conversions: a colour is converted to an index, or an   *)
(* index to its colour and that colour back to an index.                   *)

HelperIdle == fn = "none" /\ x = <<>> /\ y = <<>> /\ ret = <<>>

CliIdle == argv = <<>> /\ libc = "none" /\ stdout = <<>> /\ stderr = <<>> /\ status = None

Init ==
    /\ \/ pc = "index" /\ index \in 0..255 /\ rgb = <<>>
       \/ pc = "rgb" /\ index = None /\ rgb \in Colours
    /\ back = None
    /\ loc = <<>>
    /\ HelperIdle
    /\ CliIdle

RgbFromAnsi256 ==
    /\ pc = "index"
    /\ rgb' = rgb_from_ansi256(index)
    /\ pc' = "rgb"
    /\ UNCHANGED <<index, back, loc, fn, x, y, ret, argv, libc, stdout, stderr, status>>

Ansi256FromRgb ==
    /\ pc = "rgb"
    /\ LET run == ansi256_from_rgb(rgb)
       IN  back' = run.ret /\ loc' = run.loc
    /\ pc' = "done"
    /\ UNCHANGED <<index, rgb, fn, x, y, ret, argv, libc, stdout, stderr, status>>

Next == RgbFromAnsi256 \/ Ansi256FromRgb

Spec == Init /\ [][Next]_vars

---------------------------------------------------------------------------
(* Runs of the helpers: one helper is called on one input.  A distance run *)
(* calls distance on a pair of colours in both orders.                     *)

ConversionIdle == index = None /\ rgb = <<>> /\ back = None /\ loc = <<>>

InitHelpers ==
    /\ pc = "call"
    /\ \/ fn \in {"cube_index_red", "cube_index_green", "cube_index_blue"}
          /\ x \in 0..255 /\ y = <<>>
       \/ fn = "luminance" /\ x \in Colours /\ y = <<>>
       \/ fn = "distance" /\ x \in DistColours /\ y \in DistColours
    /\ ret = <<>>
    /\ ConversionIdle
    /\ CliIdle

Return(value) ==
    /\ ret' = value
    /\ pc' = "returned"
    /\ UNCHANGED <<index, rgb, back, loc, fn, x, y, argv, libc, stdout, stderr, status>>

CubeIndexRed == pc = "call" /\ fn = "cube_index_red" /\ Return(cube_index_red(x))

CubeIndexGreen == pc = "call" /\ fn = "cube_index_green" /\ Return(cube_index_green(x))

CubeIndexBlue == pc = "call" /\ fn = "cube_index_blue" /\ Return(cube_index_blue(x))

Luminance == pc = "call" /\ fn = "luminance" /\ Return(luminance(x))

Distance == pc = "call" /\ fn = "distance" /\ Return(<<distance(x, y), distance(y, x)>>)

NextHelpers == CubeIndexRed \/ CubeIndexGreen \/ CubeIndexBlue \/ Luminance \/ Distance

SpecHelpers == InitHelpers /\ [][NextHelpers]_vars

---------------------------------------------------------------------------
(* src/examples/convert.c                                                  *)
(*                                                                         *)
(* A string is the sequence of its characters.  unsigned long is modelled  *)
(* with 32 bits; the arguments tried have at most three digits, so strtoul *)
(* never overflows, and a negated value is above 255 at any width.         *)

DecimalDigits == <<"0", "1", "2", "3", "4", "5", "6", "7", "8", "9">>

IsDigit(ch) == \E d \in 1..10 : DecimalDigits[d] = ch

DigitValue(ch) == (CHOOSE d \in 1..10 : DecimalDigits[d] = ch) - 1

RECURSIVE SkipSpaces(_, _)
SkipSpaces(s, p) ==
    IF p <= Len(s) /\ s[p] = " " THEN SkipSpaces(s, p + 1) ELSE p

RECURSIVE ScanDigits(_, _, _)
ScanDigits(s, p, acc) ==
    IF p <= Len(s) /\ IsDigit(s[p])
    THEN ScanDigits(s, p + 1, acc * 10 + DigitValue(s[p]))
    ELSE [value |-> acc, end |-> p]

\* -w modulo 2^32.
NegU32(w) == AddU32([k \in 1..4 |-> 255 - w[k]], U32(1))

\* strtoul(nptr, &ptr, 10) with errno 0 before the call: white space, an
\* optional sign, digits.  ptr is the position ptr points at, Len(nptr) + 1
\* being the terminating NUL.  When there are no digits nothing is converted:
\* the value is 0 and ptr is nptr, and the library either leaves errno alone
\* or sets it to EINVAL (22).
strtoul(nptr, lib) ==
    LET p0 == SkipSpaces(nptr, 1)
        signed == p0 <= Len(nptr) /\ nptr[p0] \in {"-", "+"}
        p1 == IF signed THEN p0 + 1 ELSE p0
        scan == ScanDigits(nptr, p1, 0)
    IN  IF scan.end = p1
        THEN [value |-> U32(0), ptr |-> 1,
              errno |-> IF lib = "sets_EINVAL" THEN 22 ELSE 0]
        ELSE [value |-> IF signed /\ nptr[p0] = "-"
                        THEN NegU32(U32(scan.value))
                        ELSE U32(scan.value),
              ptr |-> scan.end,
              errno |-> 0]

\* (uint32_t)-1
MinusOne == <<255, 255, 255, 255>>

\* parse_u8: ret is the value returned and err what it wrote to stderr (the
\* program name argv[0] is not modelled).
parse_u8(arg, lib) ==
    LET r == strtoul(arg, lib)
    IN  IF /\ r.value[1] = 0 /\ r.value[2] = 0 /\ r.value[3] = 0
           /\ r.errno = 0
           /\ r.ptr = Len(arg) + 1
        THEN [ret |-> r.value, err |-> <<>>]
        ELSE [ret |-> MinusOne,
              err |-> << [fmt |-> "%s: expected 8-bit unsigned integer: '%s'\n",
                          args |-> <<"argv[0]", arg>>] >>]

Usage == [fmt |-> "usage: %s ( <index> | <r> <g> <b> )\n", args |-> <<"argv[0]">>]

\* main with argc = Len(args) + 1 and argv[k] = args[k]: what it printed,
\* what it wrote to stderr and the status it returned.
main(args, lib) ==
    IF Len(args) + 1 = 2 THEN
        LET p == parse_u8(args[1], lib)
        IN  IF p.ret = MinusOne
            THEN [stdout |-> <<>>, stderr |-> p.err, status |-> 1]
            ELSE [stdout |-> << [fmt |-> "%3d: #%06x\n",
                                 args |-> <<p.ret, rgb_from_ansi256(U8(ToInt(p.ret)))>>] >>,
                  stderr |-> <<>>,
                  status |-> 0]
    ELSE IF Len(args) + 1 = 4 THEN
        LET r == parse_u8(args[1], lib)
            g == parse_u8(args[2], lib)
            b == parse_u8(args[3], lib)
        IN  IF r.ret = MinusOne
            THEN [stdout |-> <<>>, stderr |-> r.err, status |-> 1]
            ELSE IF g.ret = MinusOne
            THEN [stdout |-> <<>>, stderr |-> g.err, status |-> 1]
            ELSE IF b.ret = MinusOne
            THEN [stdout |-> <<>>, stderr |-> b.err, status |-> 1]
            ELSE
                LET colour == OrU32(OrU32(ShlU32(r.ret, 16), ShlU32(g.ret, 8)), b.ret)
                    idx == ansi256_from_rgb(colour).ret
                    approx == rgb_from_ansi256(idx)
                IN  [stdout |-> << [fmt |-> "#%06x ~ %3d #%06x\n",
                                    args |-> <<colour, idx, approx>>] >>,
                     stderr |-> <<>>,
                     status |-> 0]
    ELSE [stdout |-> <<>>, stderr |-> <<Usage>>, status |-> 1]

\* The arguments the driver is run with.
ArgPool ==
    { <<>>, <<"0">>, <<"7">>, <<"2", "5", "5">>, <<"2", "5", "6">>,
      <<"1", "2", "x">>, <<"x">>, <<"-", "1">>, <<"-", "0">>, <<" ", "5">>,
      <<"+", "5">>, <<" ">>, <<"-">> }

InitCli ==
    /\ pc = "main"
    /\ argv \in UNION {[1..n -> ArgPool] : n \in 0..MaxArgs}
    /\ libc \in {"keeps_errno", "sets_EINVAL"}
    /\ stdout = <<>>
    /\ stderr = <<>>
    /\ status = None
    /\ ConversionIdle
    /\ HelperIdle

Main ==
    /\ pc = "main"
    /\ LET run == main(argv, libc)
       IN  stdout' = run.stdout /\ stderr' = run.stderr /\ status' = run.status
    /\ pc' = "exited"
    /\ UNCHANGED <<index, rgb, back, loc, fn, x, y, ret, argv, libc>>

NextCli == Main

SpecCli == InitCli /\ [][NextCli]_vars

---------------------------------------------------------------------------
(* What the claims are stated with.                                        *)

IsGrey(c) == c[2] = c[3] /\ c[3] = c[4]

\* The cube levels L and the system colours, as the numbers the
\* specification gives (0x000000 0xce0000 ... 0xffffff in decimal).
Levels == <<0, 95, 135, 175, 215, 255>>

SystemColourValues ==
    <<0, 13500416, 52736, 13553152,
      238, 13500622, 52942, 15724527,
      8355711, 16711680, 65280, 16776960,
      6053119, 16711935, 65535, 16777215>>

PaletteValue(i) ==
    IF i < 16 THEN SystemColourValues[i + 1]
    ELSE IF i < 232 THEN
        LET offset == i - 16
        IN  Levels[(offset \div 36) + 1] * 65536
            + Levels[((offset \div 6) % 6) + 1] * 256
            + Levels[(offset % 6) + 1]
    ELSE
        LET level == (i - 232) * 10 + 8
        IN  level * 65536 + level * 256 + level

RedThresholds == {38, 115, 155, 196, 235}
GreenThresholds == {36, 116, 154, 195, 235}
BlueThresholds == {35, 115, 155, 195, 235}

\* The number of thresholds that are <= v.
Digit(v, thresholds) == Cardinality({t \in thresholds : t <= v})

CubeGreys == {16, 59, 102, 145, 188, 231}
GreyRamp == 232..255
SystemGreys == {0, 7, 8, 15}

\* C1: for every 8-bit index, rgb_from_ansi256 returns the value its region
\* defines (system table, cube digits through the levels, grey ramp), with a
\* zero top byte and no wrap of the 8-bit intermediate.
C1_PaletteByRegion ==
    (index # None /\ pc # "index") =>
        /\ rgb[1] = 0
        /\ ToInt(rgb) = PaletteValue(index)
        /\ (index = 0 => rgb = <<0, 0, 0, 0>>)
        /\ (index = 7 => rgb = <<0, 239, 239, 239>>)
        /\ (index = 15 => rgb = <<0, 255, 255, 255>>)
        /\ (index = 232 => rgb = <<0, 8, 8, 8>>)
        /\ (index = 255 => rgb = <<0, 238, 238, 238>>)
        /\ (index \in 16..231 => index - 16 \in 0..215)
        /\ (index \in 232..255 => (index - 232) * 10 + 8 \in 8..238)

C1_Witness == pc = "rgb" /\ index = 196 /\ rgb = <<0, 255, 0, 0>>

\* C2: for a colour whose channels are not all equal, ansi256_from_rgb
\* returns the cube index C when the cube colour is strictly closer than the
\* grey candidate's colour and the grey candidate otherwise (ties included);
\* the packed sum of the three quantizers holds C in its top byte and
\* rgb_from_ansi256(C) below it, without carry and with C <= 231.
C2_NonGreySelection ==
    (pc = "done" /\ ~IsGrey(rgb)) =>
        LET C == 16 + 36 * Digit(rgb[2], RedThresholds)
                    + 6 * Digit(rgb[3], GreenThresholds)
                    + Digit(rgb[4], BlueThresholds)
            Gi == ansi256_from_grey[luminance(rgb) + 1]
            dC == distance(rgb, rgb_from_ansi256(C))
            dG == distance(rgb, rgb_from_ansi256(Gi))
            pr == cube_index_red(rgb[2])
            pg == cube_index_green(rgb[3])
            pb == cube_index_blue(rgb[4])
        IN  /\ back = IF dC < dG THEN C ELSE Gi
            /\ (dC = dG => back = Gi)
            /\ Len(loc) = 1
            /\ loc[1].grey_index = Gi
            /\ loc[1].grey_distance = dG
            /\ loc[1].cube = <<C>> \o Tail(rgb_from_ansi256(C))
            /\ \A k \in 1..4 : loc[1].cube[k] = pr[k] + pg[k] + pb[k]
            /\ C \in 16..231

C2_Witness ==
    /\ pc = "done"
    /\ rgb = <<0, 38, 106, 115>>
    /\ Len(loc) = 1
    /\ loc[1].cube[1] = 60
    /\ loc[1].grey_index = 59
    /\ distance(rgb, loc[1].cube) = loc[1].grey_distance
    /\ back = 59

\* C3 as claimed: for a grey (v,v,v), no palette index with a grey colour,
\* the system greys included, is strictly closer to it than the index
\* returned, so an exact entry is returned whenever one exists.
C3_BestAmongAllGreys ==
    (pc = "done" /\ IsGrey(rgb)) =>
        /\ \A i \in SystemGreys \cup CubeGreys \cup GreyRamp :
              distance(rgb, rgb_from_ansi256(i)) >= distance(rgb, rgb_from_ansi256(back))
        /\ ((\E i \in 0..255 : rgb_from_ansi256(i) = rgb) => rgb_from_ansi256(back) = rgb)

\* C3 as amended: for a grey (v,v,v), no grey entry outside the 16 system
\* colours (the cube greys 16, 59, 102, 145, 188, 231 and the ramp 232-255,
\* which are all the grey entries there) is strictly closer to it than the
\* index returned, so an exact entry among them is returned when one exists.
C3_BestAmongNonSystemGreys ==
    (pc = "done" /\ IsGrey(rgb)) =>
        /\ {i \in 16..255 : IsGrey(rgb_from_ansi256(i))} = CubeGreys \cup GreyRamp
        /\ back = ansi256_from_grey[rgb[4] + 1]
        /\ \A i \in CubeGreys \cup GreyRamp :
              distance(rgb, rgb_from_ansi256(i)) >= distance(rgb, rgb_from_ansi256(back))
        /\ ((\E i \in 16..255 : rgb_from_ansi256(i) = rgb) => rgb_from_ansi256(back) = rgb)

C3_Witness ==
    /\ pc = "done"
    /\ rgb = <<0, 127, 127, 127>>
    /\ back = 244
    /\ rgb_from_ansi256(back) = <<0, 128, 128, 128>>
    /\ rgb_from_ansi256(8) = rgb

\* C4: for a grey (r,r,r) the result is the grey table's entry for r, and
\* the exact-grey test decides first: the non-grey path's grey candidate,
\* cube candidate and distances are never computed.
C4_GreyFastPath ==
    (pc = "done" /\ IsGrey(rgb)) =>
        /\ back = ansi256_from_grey[rgb[2] + 1]
        /\ loc = <<>>

C4_Witness == pc = "done" /\ rgb = <<0, 95, 95, 95>> /\ back = 59 /\ loc = <<>>

\* C6: every palette index in 16..255 is mapped by rgb_from_ansi256 to a
\* colour that ansi256_from_rgb maps back to the same index; 0xff0000 gives
\* 196, 0x000000 gives 16 and 0xffffff gives 231.
C6_RoundTrip ==
    pc = "done" =>
        /\ (index \in 16..255 => back = index)
        /\ (rgb = <<0, 255, 0, 0>> => back = 196)
        /\ (rgb = <<0, 0, 0, 0>> => back = 16)
        /\ (rgb = <<0, 255, 255, 255>> => back = 231)

C6_Witness == pc = "done" /\ index = 22 /\ rgb = <<0, 0, 95, 0>> /\ back = 22

\* C7: ansi256_from_rgb never returns a system-colour index: the result is
\* in 16..255, every grey-table result is a cube grey or a ramp index and
\* every cube candidate is in 16..231.
C7_NeverSystemColour ==
    pc = "done" =>
        /\ back \in 16..255
        /\ (IsGrey(rgb) => back \in CubeGreys \cup GreyRamp)
        /\ (loc # <<>> =>
               /\ loc[1].grey_index \in CubeGreys \cup GreyRamp
               /\ loc[1].cube[1] \in 16..231)

C7_Witness ==
    /\ pc = "done"
    /\ index = None
    /\ rgb = <<0, 0, 0, 255>>
    /\ back = 21
    /\ rgb_from_ansi256(12) = <<0, 92, 92, 255>>

INT32_MAX == 2147483647

\* C5: distance(x, y) is the non-negative integer
\* (1024 + r_sum) * dr^2 + 2048 * dg^2 + (1534 - r_sum) * db^2, every term and
\* partial sum of which fits a signed 32-bit integer; distance(x, x) = 0 and
\* distance(x, y) = distance(y, x).
C5_Distance ==
    (pc = "returned" /\ fn = "distance") =>
        LET r_sum == x[2] + y[2]
            dr == x[2] - y[2]
            dg == x[3] - y[3]
            db == x[4] - y[4]
            tr == (1024 + r_sum) * (dr * dr)
            tg == 2048 * (dg * dg)
            tb == (1534 - r_sum) * (db * db)
        IN  /\ ret[1] = tr + tg + tb
            /\ ret[1] >= 0
            /\ \A t \in {tr, tg, tb, tr + tg, tr + tg + tb} : t \in 0..INT32_MAX
            /\ \A t \in {(1024 + r_sum) * dr, (1534 - r_sum) * db} :
                  t \in (0 - INT32_MAX)..INT32_MAX
            /\ (x = y => ret[1] = 0)
            /\ ret[1] = ret[2]

C5_Witness ==
    /\ pc = "returned"
    /\ fn = "distance"
    /\ x = <<0, 255, 255, 255>>
    /\ y = <<0, 0, 0, 0>>
    /\ ret = <<299505150, 299505150>>

\* C8: each quantizer returns, for every v in 0..255, the digit in 0..5 that
\* counts its channel's thresholds <= v (packed with that digit's level), is
\* non-decreasing in v, and maps each cube level to its own digit.
C8_QuantizerSteps ==
    (pc = "returned" /\ fn \in {"cube_index_red", "cube_index_green", "cube_index_blue"}) =>
        LET d == Digit(x, CASE fn = "cube_index_red" -> RedThresholds
                            [] fn = "cube_index_green" -> GreenThresholds
                            [] fn = "cube_index_blue" -> BlueThresholds)
            below(u) == CASE fn = "cube_index_red" -> cube_index_red(u)
                          [] fn = "cube_index_green" -> cube_index_green(u)
                          [] fn = "cube_index_blue" -> cube_index_blue(u)
        IN  /\ d \in 0..5
            /\ ret = CASE fn = "cube_index_red" -> <<16 + 36 * d, Levels[d + 1], 0, 0>>
                       [] fn = "cube_index_green" -> <<6 * d, 0, Levels[d + 1], 0>>
                       [] fn = "cube_index_blue" -> <<d, 0, 0, Levels[d + 1]>>
            /\ \A u \in 0..x : below(u)[1] <= ret[1]
            /\ \A k \in 1..6 : x = Levels[k] => d = k - 1

C8_Witness ==
    /\ pc = "returned"
    /\ fn = "cube_index_green"
    /\ x = 36
    /\ ret = <<6, 0, 95, 0>>

\* C9: the weighted sum 3568058*R + 11998262*G + 1210896*B never exceeds
\* 2^32 - 1, its value shifted right by 24 is in 0..255 and is what luminance
\* returns, and for a grey (v,v,v) that is exactly v.  The sum is h * 2^16 + l
\* with l < 2^16.
C9_Luminance ==
    (pc = "returned" /\ fn = "luminance") =>
        LET low == (3568058 % 65536) * x[2] + (11998262 % 65536) * x[3]
                   + (1210896 % 65536) * x[4]
            h == (3568058 \div 65536) * x[2] + (11998262 \div 65536) * x[3]
                 + (1210896 \div 65536) * x[4] + (low \div 65536)
        IN  /\ h <= 65535
            /\ h \div 256 \in 0..255
            /\ ret = h \div 256
            /\ (IsGrey(x) => ret = x[2])

C9_Witness ==
    /\ pc = "returned"
    /\ fn = "luminance"
    /\ x = <<0, 255, 255, 255>>
    /\ ret = 255

RECURSIVE StripBlanks(_)
StripBlanks(s) == IF s # <<>> /\ Head(s) = " " THEN StripBlanks(Tail(s)) ELSE s

RECURSIVE DecimalValue(_)
DecimalValue(s) ==
    IF s = <<>> THEN 0
    ELSE 10 * DecimalValue(SubSeq(s, 1, Len(s) - 1)) + DigitValue(s[Len(s)])

\* An argument that is a decimal integer in [0,255]: after optional blanks
\* and an optional sign, one or more digits and nothing else, of a value in
\* 0..255.
IsU8Argument(arg) ==
    LET t == StripBlanks(arg)
        u == IF t # <<>> /\ Head(t) \in {"+", "-"} THEN Tail(t) ELSE t
    IN  /\ u # <<>>
        /\ \A k \in 1..Len(u) : IsDigit(u[k])
        /\ IF Head(t) = "-" THEN DecimalValue(u) = 0 ELSE DecimalValue(u) <= 255

ValidInvocation(args) ==
    /\ Len(args) \in {1, 3}
    /\ \A k \in 1..Len(args) : IsU8Argument(args[k])

\* C10: an invocation with a non-numeric argument (the empty string
\* included), an argument outside [0,255] or an argument count other than
\* one or three writes a message to the error stream, exits non-zero and
\* prints no conversion; only invocations whose arguments are all decimal
\* integers in [0,255] convert and exit with status 0.
C10_InvalidInvocationsRejected ==
    pc = "exited" =>
        IF ValidInvocation(argv)
        THEN status = 0 /\ stdout # <<>> /\ stderr = <<>>
        ELSE status # 0 /\ stderr # <<>> /\ stdout = <<>>

===========================================================================
